---- MODULE Spec2Model ----
(***************************************************************************)
(* A model of the Version 1 (time based) part of the uuid crate:          *)
(* the clock sequence Context (src/src/v1.rs), Timestamp, Uuid::new_v1,   *)
(* Uuid::get_timestamp and the Uuid classification accessors              *)
(* (src/src/lib.rs).                                                       *)
(*                                                                         *)
(* TLC integers are 32 bits wide, so a u64 is a tuple of 8 bytes, least    *)
(* significant byte first, and a Uuid is the tuple of its 16 bytes in      *)
(* storage order (byte i of the Rust array is element i+1).                *)
(***************************************************************************)
EXTENDS Integers, Sequences, FiniteSets, TLC

VARIABLES
    count,      \* Context.count, the Atomic<u16>
    seed,       \* the value Context::new was called with
    calls,      \* the generate_sequence calls so far, in the order of their atomic step
    twin,       \* the counter of a second Context created with the same seed
    twinCalls,  \* the values the second Context returned
    lastArgs,   \* the arguments of the last call on each of the two Contexts
    pc,         \* per thread: where the caller is
    args,       \* per thread: the (seconds, subsec_nanos) of the from_unix call in progress
    ts,         \* per thread: the Timestamp it holds
    uuid,       \* per thread: the Uuid it holds
    res,        \* per thread: the result of the last accessor
    generated,  \* the Uuids built by new_v1 from from_unix timestamps
    overflow_checks \* build profile: arithmetic overflow panics (TRUE) or wraps (FALSE)

vars == <<count, seed, calls, twin, twinCalls, lastArgs, pc, args, ts, uuid,
          res, generated, overflow_checks>>

----------------------------------------------------------------------------
(* Bounds *)

\* the longest run of generate_sequence calls on one Context
MaxCalls == 5
\* the number of from_unix calls of the single-threaded pipeline
MaxPipelineCalls == 2
\* the number of threads sharing the Context
NumThreads == 2
\* the longest slice handed to from_slice
MaxSliceLen == 17

----------------------------------------------------------------------------
(* Fixed-width arithmetic *)

U16_MAX == 65535
U16_MOD == 65536

RECURSIVE BitAnd(_, _)
BitAnd(a, b) ==
    IF a = 0 \/ b = 0 THEN 0
    ELSE (a % 2) * (b % 2) + 2 * BitAnd(a \div 2, b \div 2)

RECURSIVE BitOr(_, _)
BitOr(a, b) ==
    IF a = 0 THEN b
    ELSE IF b = 0 THEN a
    ELSE (IF (a % 2) + (b % 2) > 0 THEN 1 ELSE 0) + 2 * BitOr(a \div 2, b \div 2)

RECURSIVE Pow2(_)
Pow2(n) == IF n = 0 THEN 1 ELSE 2 * Pow2(n - 1)

\* x >> n
Shr(x, n) == x \div Pow2(n)

\* x << n on a value of the given bit width
Shl(x, n, width) == (x * Pow2(n)) % Pow2(width)

\* the tuple of f(1) .. f(n), for the widths in use
Tuple4(f(_)) == << f(1), f(2), f(3), f(4) >>
Tuple8(f(_)) == << f(1), f(2), f(3), f(4), f(5), f(6), f(7), f(8) >>
Tuple16(f(_)) ==
    << f(1), f(2), f(3), f(4), f(5), f(6), f(7), f(8),
       f(9), f(10), f(11), f(12), f(13), f(14), f(15), f(16) >>

\* a u64 from its four 16-bit groups, most significant first
U64(g3, g2, g1, g0) ==
    << g0 % 256, g0 \div 256, g1 % 256, g1 \div 256,
       g2 % 256, g2 \div 256, g3 % 256, g3 \div 256 >>

Zero64 == U64(0, 0, 0, 0)

\* x & mask on u64
And64(x, mask) == LET f(i) == BitAnd(x[i], mask[i]) IN Tuple8(f)

\* x | y on u64
Or64(x, y) == LET f(i) == BitOr(x[i], y[i]) IN Tuple8(f)

\* x >> n on u64, n a multiple of 8
Shr64(x, n) ==
    LET f(i) == IF i + (n \div 8) <= 8 THEN x[i + (n \div 8)] ELSE 0 IN Tuple8(f)

\* (b as u64) << n for a byte b, n a multiple of 8
ByteShl64(b, n) == LET f(i) == IF i = (n \div 8) + 1 THEN b ELSE 0 IN Tuple8(f)

\* x as u16
AsU16(x) == x[1] + 256 * x[2]

\* x as u32, kept as 4 bytes, least significant first
AsU32(x) == << x[1], x[2], x[3], x[4] >>

----------------------------------------------------------------------------
(* Context, src/src/v1.rs *)

\* Atomic<u16>::fetch_add(delta): one atomic read-modify-write, wrapping;
\* yields the previous value.
FetchAdd_ReturnsNew(cnt, delta) ==
    [old |-> (cnt + delta) % U16_MOD, new |-> (cnt + delta) % U16_MOD]

FetchAdd_LostUpdate(cnt, delta) ==
    [old |-> cnt, new |-> IF cnt % 2 = 1 THEN cnt ELSE (cnt + delta) % U16_MOD]

FetchAdd_ByTwo(cnt, delta) ==
    [old |-> cnt, new |-> (cnt + 2 * delta) % U16_MOD]

FetchAdd(cnt, delta) ==
    [old |-> cnt, new |-> (cnt + delta) % U16_MOD]

\* Context::new(count)
ContextNew(c) == c

\* the modulus of generate_sequence: u16::MAX >> 2
SequenceModulus == Shr(U16_MAX, 2)

\* <Context as ClockSequence>::generate_sequence(&self, _, _):
\* the value returned and the counter left behind.
GenerateSequence_NoWrap(cnt, seconds, subsec_nanos) ==
    LET r == FetchAdd(cnt, 1)
    IN  [raw |-> r.old, ret |-> r.old, count |-> r.new]

GenerateSequence_EveryOtherCall(cnt, seconds, subsec_nanos) ==
    LET r == FetchAdd(cnt, 1)
    IN  [raw |-> r.old, ret |-> (r.old \div 2) % SequenceModulus, count |-> r.new]

GenerateSequence_UsesTime(cnt, seconds, subsec_nanos) ==
    LET r == FetchAdd(cnt, 1)
    IN  [raw |-> r.old,
         ret |-> (r.old + seconds[1] + subsec_nanos[1]) % SequenceModulus,
         count |-> r.new]

GenerateSequence(cnt, seconds, subsec_nanos) ==
    LET r == FetchAdd(cnt, 1)
    IN  [raw |-> r.old, ret |-> r.old % SequenceModulus, count |-> r.new]

----------------------------------------------------------------------------
(* u64 arithmetic, with the overflow the checked build would report *)

\* x as u32 for an integer x < 2^31: its 4 bytes, least significant first
IntToU32(x) == LET f(i) == (x \div Pow2(8 * (i - 1))) % 256 IN Tuple4(f)

\* u64::from(x) for a u32 held as 4 bytes
U64FromU32(x) == LET f(i) == IF i <= 4 THEN x[i] ELSE 0 IN Tuple8(f)

\* a u32 from its two 16-bit groups, most significant first
U32(g1, g0) == << g0 % 256, g0 \div 256, g1 % 256, g1 \div 256 >>

\* the bytes of a + b from byte i on, followed by the carry out
RECURSIVE AddFrom(_, _, _, _)
AddFrom(a, b, i, carry) ==
    IF i > 8 THEN << carry >>
    ELSE << (a[i] + b[i] + carry) % 256 >>
         \o AddFrom(a, b, i + 1, (a[i] + b[i] + carry) \div 256)

\* a + b on u64
Add64(a, b) ==
    LET r == AddFrom(a, b, 1, 0)
    IN  [val |-> SubSeq(r, 1, 8), overflow |-> r[9] # 0]

\* the bytes of a - b from byte i on, followed by the borrow out
RECURSIVE SubFrom(_, _, _, _)
SubFrom(a, b, i, borrow) ==
    IF i > 8 THEN << borrow >>
    ELSE << (a[i] - b[i] - borrow + 256) % 256 >>
         \o SubFrom(a, b, i + 1, IF a[i] - b[i] - borrow < 0 THEN 1 ELSE 0)

\* a - b on u64
Sub64(a, b) ==
    LET r == SubFrom(a, b, 1, 0)
    IN  [val |-> SubSeq(r, 1, 8), overflow |-> r[9] # 0]

\* the sum of the byte products a[i] * b[j] of weight 256^(k-1)
RECURSIVE SumProducts(_, _, _, _)
SumProducts(a, b, k, i) ==
    IF i > 8 THEN 0
    ELSE (IF k + 1 - i >= 1 /\ k + 1 - i <= 8 THEN a[i] * b[k + 1 - i] ELSE 0)
         + SumProducts(a, b, k, i + 1)

\* the 16 bytes of the full product a * b from byte k on
RECURSIVE MulFrom(_, _, _, _)
MulFrom(a, b, k, carry) ==
    IF k > 16 THEN << >>
    ELSE << (SumProducts(a, b, k, 1) + carry) % 256 >>
         \o MulFrom(a, b, k + 1, (SumProducts(a, b, k, 1) + carry) \div 256)

\* a * b on u64
Mul64(a, b) ==
    LET p == MulFrom(a, b, 1, 0)
    IN  [val |-> SubSeq(p, 1, 8), overflow |-> \E k \in 9..16 : p[k] # 0]

\* hexadecimal digit k of a, digit 1 the least significant
Nibble(a, k) ==
    IF k % 2 = 1 THEN a[(k + 1) \div 2] % 16 ELSE a[k \div 2] \div 16

\* long division of a by d from digit k down: the quotient digits,
\* most significant first, followed by the remainder
RECURSIVE DivFrom(_, _, _, _)
DivFrom(a, d, k, rem) ==
    IF k < 1 THEN << rem >>
    ELSE << (rem * 16 + Nibble(a, k)) \div d >>
         \o DivFrom(a, d, k - 1, (rem * 16 + Nibble(a, k)) % d)

\* a / d on u64, for a divisor d below 2^27
Div64(a, d) ==
    LET q == DivFrom(a, d, 16, 0)
        f(i) == q[17 - (2 * i - 1)] + 16 * q[17 - 2 * i]
    IN  Tuple8(f)

\* a % d on u64, for a divisor d below 2^27: the result fits an integer
Rem64(a, d) == DivFrom(a, d, 16, 0)[17]

----------------------------------------------------------------------------
(* Timestamp, src/src/v1.rs *)

UUID_TICKS_BETWEEN_EPOCHS == U64(434, 7634, 4993, 16384)  \* 0x01B2_1DD2_1381_4000

TEN_MILLION == U64(0, 0, 152, 38528)    \* 10_000_000 = 0x0098_9680

\* Timestamp::from_rfc4122(ticks, counter)
FromRfc4122(ticks, counter) == [ticks |-> ticks, counter |-> counter]

\* the arithmetic of Timestamp::from_unix, after the counter was drawn:
\* UUID_TICKS_BETWEEN_EPOCHS + seconds * 10_000_000 + u64::from(subsec_nanos) / 100
FromUnixTicks_NanosNotDivided(seconds, subsec_nanos) ==
    LET prod == Mul64(seconds, TEN_MILLION)
        sum1 == Add64(UUID_TICKS_BETWEEN_EPOCHS, prod.val)
        sum2 == Add64(sum1.val, U64FromU32(subsec_nanos))
    IN  [val |-> sum2.val,
         overflow |-> prod.overflow \/ sum1.overflow \/ sum2.overflow]

FromUnixTicks(seconds, subsec_nanos) ==
    LET prod == Mul64(seconds, TEN_MILLION)
        sum1 == Add64(UUID_TICKS_BETWEEN_EPOCHS, prod.val)
        sum2 == Add64(sum1.val, Div64(U64FromU32(subsec_nanos), 100))
    IN  [val |-> sum2.val,
         overflow |-> prod.overflow \/ sum1.overflow \/ sum2.overflow]

\* Timestamp::to_rfc4122(&self)
ToRfc4122(t) == << t.ticks, t.counter >>

ToUnix_NanosNotScaled(t) ==
    LET diff == Sub64(t.ticks, UUID_TICKS_BETWEEN_EPOCHS)
    IN  [val |-> << Div64(diff.val, 10000000),
                    IntToU32(Rem64(diff.val, 10000000)) >>,
         overflow |-> diff.overflow]

\* Timestamp::to_unix(&self)
ToUnix(t) ==
    LET diff == Sub64(t.ticks, UUID_TICKS_BETWEEN_EPOCHS)
    IN  [val |-> << Div64(diff.val, 10000000),
                    IntToU32(Rem64(diff.val, 10000000) * 100) >>,
         overflow |-> diff.overflow]

\* Timestamp::to_unix_nanos(&self)
ToUnixNanos(t) ==
    LET diff == Sub64(t.ticks, UUID_TICKS_BETWEEN_EPOCHS)
        prod == Mul64(diff.val, U64(0, 0, 0, 100))
    IN  [val |-> prod.val, overflow |-> diff.overflow \/ prod.overflow]

----------------------------------------------------------------------------
(* Uuid, src/src/lib.rs *)

\* Option<T>
None == [some |-> FALSE]
Some(v) == [some |-> TRUE, val |-> v]

\* Uuid::from_fields(d1, d2, d3, d4): d1 a u32 (4 bytes, least significant
\* first), d2 and d3 u16, d4 eight bytes; the fields are stored big-endian.
FromFields(d1, d2, d3, d4) ==
    << d1[4], d1[3], d1[2], d1[1],
       Shr(d2, 8), BitAnd(d2, 255),
       Shr(d3, 8), BitAnd(d3, 255) >> \o d4

AsBytes_Rotated(u) == LET f(i) == u[(i % 16) + 1] IN Tuple16(f)

AsBytes_Reversed(u) == LET f(i) == u[17 - i] IN Tuple16(f)

\* Uuid::as_bytes(&self)
AsBytes(u) == u

\* Uuid::as_u128(&self): the 16 bytes as one big-endian integer, kept as the
\* tuple of its bytes, least significant first.
AsU128(u) == LET f(i) == AsBytes(u)[17 - i] IN Tuple16(f)

\* Uuid::is_nil(&self)
IsNil(u) == \A i \in 1..16 : AsU128(u)[i] = 0

GetVariantGuards_WrongMask(u) ==
    LET x == AsBytes(u)[9]
    IN  {k \in 1..4 :
            \/ k = 1 /\ BitAnd(x, 128) = 0
            \/ k = 2 /\ BitAnd(x, 224) = 128
            \/ k = 3 /\ BitAnd(x, 224) = 192
            \/ k = 4 /\ BitAnd(x, 224) = 224}

\* the guards of the match in Uuid::get_variant that byte 8 satisfies,
\* numbered in the order of the arms
GetVariantGuards(u) ==
    LET x == AsBytes(u)[9]
    IN  {k \in 1..4 :
            \/ k = 1 /\ BitAnd(x, 128) = 0
            \/ k = 2 /\ BitAnd(x, 192) = 128
            \/ k = 3 /\ BitAnd(x, 224) = 192
            \/ k = 4 /\ BitAnd(x, 224) = 224}

\* the arm the match takes: the first whose guard holds, else the fifth (_)
GetVariantArm(u) ==
    LET g == GetVariantGuards(u)
    IN  IF g = {} THEN 5 ELSE CHOOSE k \in g : \A j \in g : k <= j

\* Uuid::get_variant(&self)
GetVariant(u) ==
    << "NCS", "RFC4122", "Microsoft", "Future", "Future" >>[GetVariantArm(u)]

GetVersionNum_LowNibble(u) == BitAnd(AsBytes(u)[7], 15)

\* Uuid::get_version_num(&self)
GetVersionNum(u) == Shr(AsBytes(u)[7], 4)

\* enum Version: the numbers of the variants (Nil = 0, then counting up)
VersionNumber(v) ==
    CHOOSE n \in 0..5 :
        << "Nil", "Mac", "Dce", "Md5", "Random", "Sha1" >>[n + 1] = v

GetVersion_NilForZeroNibble(u) ==
    LET n == GetVersionNum(u)
    IN  IF n = 0 THEN Some("Nil")
        ELSE IF n = 1 THEN Some("Mac")
        ELSE IF n = 2 THEN Some("Dce")
        ELSE IF n = 3 THEN Some("Md5")
        ELSE IF n = 4 THEN Some("Random")
        ELSE IF n = 5 THEN Some("Sha1")
        ELSE None

\* Uuid::get_version(&self)
GetVersion(u) ==
    LET n == GetVersionNum(u)
    IN  IF n = 0 /\ IsNil(u) THEN Some("Nil")
        ELSE IF n = 1 THEN Some("Mac")
        ELSE IF n = 2 THEN Some("Dce")
        ELSE IF n = 3 THEN Some("Md5")
        ELSE IF n = 4 THEN Some("Random")
        ELSE IF n = 5 THEN Some("Sha1")
        ELSE None

----------------------------------------------------------------------------
(* Version 1 construction and extraction, src/src/v1.rs *)

\* time_low = (ts.ticks & 0xFFFF_FFFF) as u32
TimeLow(ticks) == AsU32(And64(ticks, U64(0, 0, 65535, 65535)))

\* time_mid = ((ts.ticks >> 32) & 0xFFFF) as u16
TimeMid_WrongShift(ticks) == AsU16(And64(Shr64(ticks, 16), U64(0, 0, 0, 65535)))

TimeMid(ticks) == AsU16(And64(Shr64(ticks, 32), U64(0, 0, 0, 65535)))

\* time_high_and_version = (((ts.ticks >> 48) & 0x0FFF) as u16) | (1 << 12)
TimeHighAndVersion_NoMask(ticks) ==
    BitOr(AsU16(Shr64(ticks, 48)), Shl(1, 12, 16))

TimeHighAndVersion(ticks) ==
    BitOr(AsU16(And64(Shr64(ticks, 48), U64(0, 0, 0, 4095))), Shl(1, 12, 16))

ClockSeqHiAndReserved_NoMask(counter) == BitOr(Shr(counter, 8) % 256, 128)

\* d4[0] = (((ts.counter & 0x3F00) >> 8) as u8) | 0x80
ClockSeqHiAndReserved(counter) == BitOr(Shr(BitAnd(counter, 16128), 8) % 256, 128)

ClockSeqLow_HighByte(counter) == Shr(counter, 8) % 256

\* d4[1] = (ts.counter & 0xFF) as u8
ClockSeqLow(counter) == BitAnd(counter, 255) % 256

\* Uuid::new_v1(ts, node_id)
NewV1(t, node_id) ==
    LET time_low == TimeLow(t.ticks)
        time_mid == TimeMid(t.ticks)
        time_high_and_version == TimeHighAndVersion(t.ticks)
        d4 == << ClockSeqHiAndReserved(t.counter), ClockSeqLow(t.counter),
                 node_id[1], node_id[2], node_id[3],
                 node_id[4], node_id[5], node_id[6] >>
    IN  FromFields(time_low, time_mid, time_high_and_version, d4)

GetTimestamp_NeedsRfc4122(u) ==
    IF GetVersion(u) = Some("Mac") /\ GetVariant(u) = "RFC4122"
    THEN LET b == AsBytes(u)
             ticks ==
                 Or64(ByteShl64(BitAnd(b[7], 15), 56),
                 Or64(ByteShl64(b[8], 48),
                 Or64(ByteShl64(b[5], 40),
                 Or64(ByteShl64(b[6], 32),
                 Or64(ByteShl64(b[1], 24),
                 Or64(ByteShl64(b[2], 16),
                 Or64(ByteShl64(b[3], 8),
                      ByteShl64(b[4], 0))))))))
             counter == BitOr(Shl(BitAnd(b[9], 63), 8, 16), b[10])
         IN  Some(FromRfc4122(ticks, counter))
    ELSE None

GetTimestamp_SwappedMid(u) ==
    IF GetVersion(u) = Some("Mac")
    THEN LET b == AsBytes(u)
             ticks ==
                 Or64(ByteShl64(BitAnd(b[7], 15), 56),
                 Or64(ByteShl64(b[8], 48),
                 Or64(ByteShl64(b[6], 40),
                 Or64(ByteShl64(b[5], 32),
                 Or64(ByteShl64(b[1], 24),
                 Or64(ByteShl64(b[2], 16),
                 Or64(ByteShl64(b[3], 8),
                      ByteShl64(b[4], 0))))))))
             counter == BitOr(Shl(BitAnd(b[9], 63), 8, 16), b[10])
         IN  Some(FromRfc4122(ticks, counter))
    ELSE None

\* Uuid::get_timestamp(&self)
GetTimestamp(u) ==
    IF GetVersion(u) = Some("Mac")
    THEN LET b == AsBytes(u)
             ticks ==
                 Or64(ByteShl64(BitAnd(b[7], 15), 56),
                 Or64(ByteShl64(b[8], 48),
                 Or64(ByteShl64(b[5], 40),
                 Or64(ByteShl64(b[6], 32),
                 Or64(ByteShl64(b[1], 24),
                 Or64(ByteShl64(b[2], 16),
                 Or64(ByteShl64(b[3], 8),
                      ByteShl64(b[4], 0))))))))
             counter == BitOr(Shl(BitAnd(b[9], 63), 8, 16), b[10])
         IN  Some(FromRfc4122(ticks, counter))
    ELSE None

----------------------------------------------------------------------------
(* Inputs *)

Threads == 1..NumThreads

\* every seed a Context can be created with
AllSeeds == 0..U16_MAX

\* seeds around the points where the returned value or the counter wraps
WrapSeeds == {0, 42, 16382, 16383, 32766, 65533, 65535}

\* the seeds of the Context the threads share
SharedSeeds == {42, 16382, 65533}

PipelineSeeds == {0, 16382}

SECS_2017 == U64(0, 0, 22840, 12295)     \* 1_496_854_535
SECS_MAX == U64(65535, 65535, 65535, 65535)     \* u64::MAX
NANOS_TEST == U32(12404, 37456)     \* 812_946_000
NANOS_MAX == U32(65535, 65535)     \* u32::MAX

SharedSeconds == {SECS_2017}
SharedNanos == {NANOS_TEST}
SharedNodes == {<<1, 2, 3, 4, 5, 6>>}

PipelineSeconds == {Zero64, SECS_2017, SECS_MAX}
\* 0, 812_946_000, 999_999_999 (the last nanosecond of a second) and u32::MAX
PipelineNanos == {U32(0, 0), NANOS_TEST, U32(15258, 51711), NANOS_MAX}
PipelineNodes == {<<1, 2, 3, 4, 5, 6>>, <<255, 254, 0, 128, 127, 171>>}

\* ticks inside and outside 60 bits
PipelineTicks ==
    { Zero64,
      U64(0, 0, 22851, 60983),              \* 1_497_624_119
      U64(487, 19362, 8289, 26932),         \* 0x01E7_4BA2_2061_6934
      U64(4095, 65535, 65535, 65535),       \* 2^60 - 1
      U64(61440, 0, 0, 0),                  \* only the bits above bit 59
      U64(43981, 4660, 22136, 39612),       \* 0xABCD_1234_5678_9ABC
      SECS_MAX }

\* counters inside and outside 14 bits
PipelineCounters == {0, 42, 4660, 16383, 16384, 49152, 43981, 65535}

----------------------------------------------------------------------------
(* State *)

ThreadIdle ==
    /\ pc = [t \in Threads |-> "idle"]
    /\ args = [t \in Threads |-> None]
    /\ ts = [t \in Threads |-> None]
    /\ uuid = [t \in Threads |-> None]
    /\ res = [t \in Threads |-> None]

\* the state after Context::new(seed), twice with the same seed
InitWith(seeds, profiles) ==
    /\ seed \in seeds
    /\ count = ContextNew(seed)
    /\ twin = ContextNew(seed)
    /\ calls = << >>
    /\ twinCalls = << >>
    /\ lastArgs = None
    /\ ThreadIdle
    /\ generated = {}
    /\ overflow_checks \in profiles

threadVars == <<pc, args, ts, uuid, res, generated>>
twinVars == <<twin, twinCalls, lastArgs>>

----------------------------------------------------------------------------
(* Sequential callers of the Context *)

\* context.generate_sequence(seconds, subsec_nanos), called directly
CallGenerateSequence(seconds, subsec_nanos) ==
    /\ Len(calls) < MaxCalls
    /\ LET g == GenerateSequence(count, seconds, subsec_nanos)
       IN  /\ count' = g.count
           /\ calls' = Append(calls, [raw |-> g.raw, ret |-> g.ret])
    /\ UNCHANGED <<seed, threadVars, twinVars, overflow_checks>>

\* the same call made on two Contexts of the same seed, with different arguments
CallBoth(s1, n1, s2, n2) ==
    /\ Len(calls) < MaxCalls
    /\ <<s1, n1>> # <<s2, n2>>
    /\ LET g == GenerateSequence(count, s1, n1)
           h == GenerateSequence(twin, s2, n2)
       IN  /\ count' = g.count
           /\ calls' = Append(calls, [raw |-> g.raw, ret |-> g.ret])
           /\ twin' = h.count
           /\ twinCalls' = Append(twinCalls, h.ret)
    /\ lastArgs' = Some(<< <<s1, n1>>, <<s2, n2>> >>)
    /\ UNCHANGED <<seed, threadVars, overflow_checks>>

----------------------------------------------------------------------------
(* Threads building Version 1 Uuids *)

\* Timestamp::from_unix(&context, seconds, subsec_nanos), up to and including
\* the atomic step of context.generate_sequence (v1.rs line 79)
FromUnixCall(t, seconds, subsec_nanos) ==
    /\ pc[t] = "idle"
    /\ Len(calls) < MaxCalls
    /\ LET g == GenerateSequence(count, seconds, subsec_nanos)
       IN  /\ count' = g.count
           /\ calls' = Append(calls, [raw |-> g.raw, ret |-> g.ret])
           /\ args' = [args EXCEPT ![t] =
                         Some([seconds |-> seconds, subsec_nanos |-> subsec_nanos,
                               counter |-> g.ret, call |-> Len(calls) + 1])]
    /\ pc' = [pc EXCEPT ![t] = "from_unix"]
    /\ UNCHANGED <<seed, ts, uuid, res, generated, twinVars, overflow_checks>>

\* the rest of Timestamp::from_unix: the thread-local arithmetic (lines 80-84)
FromUnixReturn(t) ==
    /\ pc[t] = "from_unix"
    /\ LET a == args[t].val
           ticks == FromUnixTicks(a.seconds, a.subsec_nanos)
       IN  IF ticks.overflow /\ overflow_checks
           THEN /\ pc' = [pc EXCEPT ![t] = "panicked"]
                /\ ts' = ts
           ELSE /\ pc' = [pc EXCEPT ![t] = "ts"]
                /\ ts' = [ts EXCEPT ![t] =
                            Some([ticks |-> ticks.val, counter |-> a.counter])]
    /\ UNCHANGED <<count, seed, calls, args, uuid, res, generated, twinVars,
                   overflow_checks>>

\* Timestamp::from_rfc4122(ticks, counter)
MakeFromRfc4122(t, ticks, counter) ==
    /\ pc[t] = "idle"
    /\ ts' = [ts EXCEPT ![t] = Some(FromRfc4122(ticks, counter))]
    /\ pc' = [pc EXCEPT ![t] = "ts"]
    /\ UNCHANGED <<count, seed, calls, args, uuid, res, generated, twinVars,
                   overflow_checks>>

\* ts.to_rfc4122()
CallToRfc4122(t) ==
    /\ pc[t] = "ts"
    /\ res' = [res EXCEPT ![t] =
                 Some([op |-> "to_rfc4122", val |-> ToRfc4122(ts[t].val)])]
    /\ UNCHANGED <<count, seed, calls, pc, args, ts, uuid, generated, twinVars,
                   overflow_checks>>

\* ts.to_unix()
CallToUnix(t) ==
    /\ pc[t] = "ts"
    /\ LET r == ToUnix(ts[t].val)
       IN  IF r.overflow /\ overflow_checks
           THEN /\ pc' = [pc EXCEPT ![t] = "panicked"]
                /\ res' = res
           ELSE /\ pc' = pc
                /\ res' = [res EXCEPT ![t] = Some([op |-> "to_unix", val |-> r.val])]
    /\ UNCHANGED <<count, seed, calls, args, ts, uuid, generated, twinVars,
                   overflow_checks>>

\* ts.to_unix_nanos()
CallToUnixNanos(t) ==
    /\ pc[t] = "ts"
    /\ LET r == ToUnixNanos(ts[t].val)
       IN  IF r.overflow /\ overflow_checks
           THEN /\ pc' = [pc EXCEPT ![t] = "panicked"]
                /\ res' = res
           ELSE /\ pc' = pc
                /\ res' = [res EXCEPT ![t] =
                             Some([op |-> "to_unix_nanos", val |-> r.val])]
    /\ UNCHANGED <<count, seed, calls, args, ts, uuid, generated, twinVars,
                   overflow_checks>>

\* Uuid::new_v1(ts, &node_id)
CallNewV1(t, node_id) ==
    /\ pc[t] = "ts"
    /\ uuid' = [uuid EXCEPT ![t] = Some(NewV1(ts[t].val, node_id))]
    /\ res' = [res EXCEPT ![t] = Some([op |-> "new_v1", val |-> node_id])]
    /\ pc' = [pc EXCEPT ![t] = "uuid"]
    /\ UNCHANGED <<count, seed, calls, args, ts, twinVars, overflow_checks>>

\* bookkeeping of the Uuids built from a from_unix Timestamp, with the call
\* of generate_sequence, the time and the node each was built from
Record(t, node_id) ==
    generated' =
        IF args[t].some
        THEN generated \cup
               {[call |-> args[t].val.call, uuid |-> uuid'[t].val,
                 seconds |-> args[t].val.seconds,
                 subsec_nanos |-> args[t].val.subsec_nanos,
                 node_id |-> node_id]}
        ELSE generated

\* uuid.get_timestamp()
CallGetTimestamp(t) ==
    /\ pc[t] = "uuid"
    /\ res' = [res EXCEPT ![t] =
                 Some([op |-> "get_timestamp", val |-> GetTimestamp(uuid[t].val)])]
    /\ UNCHANGED <<count, seed, calls, pc, args, ts, uuid, generated, twinVars,
                   overflow_checks>>

\* the thread drops its values and starts over
Release(t) ==
    /\ pc[t] \in {"ts", "uuid", "err"}
    /\ pc' = [pc EXCEPT ![t] = "idle"]
    /\ args' = [args EXCEPT ![t] = None]
    /\ ts' = [ts EXCEPT ![t] = None]
    /\ uuid' = [uuid EXCEPT ![t] = None]
    /\ res' = [res EXCEPT ![t] = None]
    /\ UNCHANGED <<count, seed, calls, generated, twinVars, overflow_checks>>

----------------------------------------------------------------------------
(* Specifications *)

\* several threads share one Context and build Uuids from the Unix time
Init == InitWith(SharedSeeds, {FALSE})

Next ==
    \/ \E t \in Threads, s \in SharedSeconds, n \in SharedNanos : FromUnixCall(t, s, n)
    \/ \E t \in Threads : FromUnixReturn(t)
    \/ \E t \in Threads, node \in SharedNodes : CallNewV1(t, node) /\ Record(t, node)
    \/ \E t \in Threads : Release(t)

Spec == Init /\ [][Next]_vars

\* one caller draws clock sequences from a Context of any seed
InitSeq == InitWith(AllSeeds, {FALSE})

NextSeq == \E s \in SharedSeconds, n \in SharedNanos : CallGenerateSequence(s, n)

SpecSeq == InitSeq /\ [][NextSeq]_vars

\* two Contexts of the same seed receive calls with different arguments
InitTwin == InitWith(WrapSeeds, {FALSE})

NextTwin ==
    \E s1 \in PipelineSeconds, n1 \in PipelineNanos,
       s2 \in PipelineSeconds, n2 \in PipelineNanos : CallBoth(s1, n1, s2, n2)

SpecTwin == InitTwin /\ [][NextTwin]_vars

\* one thread uses every operation of the module
InitV1 == InitWith(PipelineSeeds, BOOLEAN)

NextV1 ==
    \/ /\ Len(calls) < MaxPipelineCalls
       /\ \E s \in PipelineSeconds, n \in PipelineNanos : FromUnixCall(1, s, n)
    \/ FromUnixReturn(1)
    \/ \E k \in PipelineTicks, c \in PipelineCounters : MakeFromRfc4122(1, k, c)
    \/ CallToRfc4122(1)
    \/ CallToUnix(1)
    \/ CallToUnixNanos(1)
    \/ \E node \in PipelineNodes : CallNewV1(1, node) /\ UNCHANGED generated
    \/ CallGetTimestamp(1)
    \/ Release(1)

SpecV1 == InitV1 /\ [][NextV1]_vars

----------------------------------------------------------------------------
(* Properties of the clock sequence Context *)

\* the values returned so far, in call order
Returned == [i \in 1..Len(calls) |-> calls[i].ret]

\* C1: every generate_sequence call increments the 16-bit counter by one and
\* returns the counter value (the one before the increment) modulo 2^14 = 16384.
C1_ReturnsCounterMod16384 ==
    /\ count = (seed + Len(calls)) % U16_MOD
    /\ \A i \in 1..Len(calls) :
         calls[i].ret = ((seed + i - 1) % U16_MOD) % 16384

\* C2: in a sequential run the returned value goes back to 0 only right after
\* the largest value of the returned range was returned (16383 for the range
\* of the claim, 16382 for the range of the code); the overflow of the 16-bit
\* counter does not restart the returned sequence.
C2_ZeroOnlyAfterLargest ==
    \A i \in 1..Len(calls) - 1 :
        calls[i + 1].ret = 0 => calls[i].ret \in {16382, 16383}

C4_FitsIn14Bits ==
    \A i \in 1..Len(calls) :
        /\ calls[i].ret < 16384
        /\ (ClockSeqHiAndReserved(calls[i].ret) - 128) * 256
             + ClockSeqLow(calls[i].ret) = calls[i].ret

\* C4 witness: a call made while the 16-bit counter held a value above 2^14,
\* followed by the call on which the counter overflowed
C4_Witness ==
    /\ Len(calls) >= 2
    /\ calls[1].raw = U16_MAX
    /\ calls[1].ret = 3
    /\ count = 1

\* C5: calls made by several threads on one shared Context never obtain the
\* same raw counter value: after N calls from seed s the raw values are
\* s, s+1, ..., s+N-1 (mod 2^16), each once, and the counter holds s+N.
C5_NoLostIncrement ==
    /\ \A i \in 1..Len(calls) : calls[i].raw = (seed + i - 1) % U16_MOD
    /\ \A i, j \in 1..Len(calls) : i # j => calls[i].raw # calls[j].raw
    /\ count = (seed + Len(calls)) % U16_MOD

\* C5 witness: two threads are inside from_unix at once, one holding the
\* first counter value drawn and the other the latest
C5_Witness ==
    /\ \E t1, t2 \in Threads :
         /\ t1 # t2
         /\ pc[t1] = "from_unix" /\ pc[t2] = "from_unix"
         /\ args[t1].val.call = 1 /\ args[t2].val.call = Len(calls)
    /\ Len(calls) >= 2

\* C6: the Uuids that threads sharing one Context build with from_unix and
\* new_v1 from the same time and node are pairwise distinct while at most
\* 16383 have been generated.
C6_DistinctUuids ==
    Len(calls) <= 16383 =>
        \A g1, g2 \in generated :
            ( /\ g1.call # g2.call
              /\ g1.seconds = g2.seconds
              /\ g1.subsec_nanos = g2.subsec_nanos
              /\ g1.node_id = g2.node_id ) => g1.uuid # g2.uuid

\* C7: what generate_sequence returns and leaves behind does not depend on
\* its (seconds, subsec_nanos) arguments: two Contexts of the same seed that
\* got the same number of calls with different arguments agree.
C7_ArgumentsIgnored ==
    /\ twin = count
    /\ twinCalls = Returned

\* C7 witness: both Contexts have answered calls whose arguments differed
C7_Witness ==
    /\ Len(calls) >= 2
    /\ Len(twinCalls) = Len(calls)
    /\ lastArgs.some
    /\ lastArgs.val[1][1] # lastArgs.val[2][1]
    /\ lastArgs.val[1][2] # lastArgs.val[2][2]

\* C8: the counter advances by exactly one on every from_unix call, which
\* invokes generate_sequence once, and by nothing else: from_rfc4122,
\* to_rfc4122, to_unix, to_unix_nanos, new_v1 and get_timestamp leave it
\* unchanged, and nothing sets it back to the seed.
C8_OnlyFromUnixAdvances ==
    [][ /\ IF \E t \in Threads : pc[t] = "idle" /\ pc'[t] = "from_unix"
           THEN /\ count' = (count + 1) % U16_MOD
                /\ Len(calls') = Len(calls) + 1
           ELSE /\ count' = count
                /\ calls' = calls
        /\ count' = (seed' + Len(calls')) % U16_MOD
        /\ seed' = seed ]_vars

\* C8 witness: after two from_unix calls, the Timestamp of the second went
\* through new_v1 and get_timestamp and the counter is two past the seed
C8_Witness ==
    /\ Len(calls) = 2
    /\ count = seed + 2
    /\ pc[1] = "uuid"
    /\ args[1].some
    /\ args[1].val.call = 2
    /\ res[1].some
    /\ res[1].val.op = "get_timestamp"

----------------------------------------------------------------------------
(* Properties of Version 1 construction *)

\* C9: for every Timestamp, also one whose ticks exceed 60 bits or whose
\* counter exceeds 14 bits, and every node, the Uuid new_v1 builds has
\* version number 1, version Mac and variant RFC4122.
C9_VersionAndVariant ==
    \A t \in Threads :
        uuid[t].some =>
            /\ GetVersionNum(uuid[t].val) = 1
            /\ GetVersion(uuid[t].val) = Some("Mac")
            /\ GetVariant(uuid[t].val) = "RFC4122"

\* C9 witness: a Uuid built from ticks with all 64 bits set and a counter
\* with all 16 bits set
C9_Witness ==
    /\ uuid[1].some
    /\ ts[1].val.ticks = SECS_MAX
    /\ ts[1].val.counter = U16_MAX
    /\ ~ args[1].some

\* C10: new_v1 stores bits 0..31 of ticks big-endian in bytes 0..3, bits
\* 32..47 in bytes 4..5, 0x1000 OR bits 48..59 in bytes 6..7, 0x80 OR bits
\* 8..13 of the counter in byte 8, bits 0..7 of the counter in byte 9 and
\* the node in bytes 10..15.
C10_ByteLayout ==
    \A t \in Threads :
        (pc[t] = "uuid" /\ res[t].val.op = "new_v1") =>
            LET u == uuid[t].val
                k == ts[t].val.ticks
                c == ts[t].val.counter
                node == res[t].val.val
            IN  /\ Len(u) = 16
                /\ << u[1], u[2], u[3], u[4] >> = << k[4], k[3], k[2], k[1] >>
                /\ << u[5], u[6] >> = << k[6], k[5] >>
                /\ u[7] * 256 + u[8] = 4096 + (k[8] % 16) * 256 + k[7]
                /\ u[9] = 128 + ((c \div 256) % 64)
                /\ u[10] = c % 256
                /\ SubSeq(u, 11, 16) = node

\* C10 witness: a Uuid built from ticks and a counter whose bytes all differ
C10_Witness ==
    /\ pc[1] = "uuid"
    /\ res[1].val.op = "new_v1"
    /\ ts[1].val.ticks = U64(43981, 4660, 22136, 39612)
    /\ ts[1].val.counter = 43981
    /\ res[1].val.val = <<255, 254, 0, 128, 127, 171>>

----------------------------------------------------------------------------
(* Uuid values of any byte pattern *)

\* Uuid::from_bytes(bytes): the 16 bytes are stored as they are
FromBytes(bytes) == bytes

\* the byte arrays of the library's tests
NIL_BYTES == << 0, 0, 0, 0, 0, 0, 0, 0, 0, 0, 0, 0, 0, 0, 0, 0 >>
FIELD_BYTES ==
    << 161, 162, 163, 164, 177, 178, 193, 194,
       209, 210, 211, 212, 213, 214, 215, 216 >>
NEW_BYTES ==
    << 249, 22, 140, 94, 206, 178, 79, 170,
       182, 191, 50, 155, 243, 159, 161, 228 >>
NOT_NIL_BYTES ==
    << 4, 54, 67, 12, 43, 2, 2, 76, 32, 50, 87, 5, 1, 33, 43, 87 >>
V1_BYTES ==
    << 32, 97, 105, 52, 75, 162, 17, 231, 128, 0, 1, 2, 3, 4, 5, 6 >>
MAX_BYTES ==
    << 255, 255, 255, 255, 255, 255, 255, 255,
       255, 255, 255, 255, 255, 255, 255, 255 >>

BaseBytes == {NIL_BYTES, FIELD_BYTES, NEW_BYTES, NOT_NIL_BYTES, V1_BYTES, MAX_BYTES}
SweepBytes == {NIL_BYTES, NEW_BYTES, V1_BYTES}

\* bytes 6 and 8 at the edges of every version nibble and every variant
VersionBytes == {16 * n + low : n \in 0..15, low \in {0, 15}}
VariantBytes == {0, 127, 128, 191, 192, 223, 224, 255}

\* the base arrays with every value in byte 6, every value in byte 8, every
\* pairing of the edge values, and each single byte put to an extreme
InputBytes ==
    BaseBytes
    \cup {[[b EXCEPT ![7] = x] EXCEPT ![9] = y] :
            b \in SweepBytes, x \in VersionBytes, y \in VariantBytes}
    \cup {[b EXCEPT ![7] = x] : b \in SweepBytes, x \in 0..255}
    \cup {[b EXCEPT ![9] = y] : b \in SweepBytes, y \in 0..255}
    \cup {[b EXCEPT ![i] = v] : b \in BaseBytes, i \in 1..16, v \in {0, 1, 128, 255}}

\* slices of every length up to MaxSliceLen, cut from the base arrays
InputSlices ==
    {SubSeq(b \o b, 1, n) : b \in BaseBytes, n \in 0..MaxSliceLen}

\* Uuid::from_slice(b): a Uuid of the bytes if there are 16, else the error
\* carrying the length
FromSlice(b) ==
    IF Len(b) = 16
    THEN [ok |-> TRUE, val |-> FromBytes(b)]
    ELSE [ok |-> FALSE, val |-> [kind |-> "ByteLength", len |-> Len(b)]]

\* Uuid::from_bytes(bytes)
MakeFromBytes(t, bytes) ==
    /\ pc[t] = "idle"
    /\ args' = [args EXCEPT ![t] = Some([ctor |-> "from_bytes", input |-> bytes])]
    /\ uuid' = [uuid EXCEPT ![t] = Some(FromBytes(bytes))]
    /\ res' = [res EXCEPT ![t] = Some([op |-> "from_bytes", val |-> bytes])]
    /\ pc' = [pc EXCEPT ![t] = "uuid"]
    /\ UNCHANGED <<count, seed, calls, ts, generated, twinVars, overflow_checks>>

\* Uuid::from_slice(b)
MakeFromSlice(t, b) ==
    /\ pc[t] = "idle"
    /\ args' = [args EXCEPT ![t] = Some([ctor |-> "from_slice", input |-> b])]
    /\ LET r == FromSlice(b)
       IN  /\ uuid' = [uuid EXCEPT ![t] = IF r.ok THEN Some(r.val) ELSE None]
           /\ res' = [res EXCEPT ![t] = Some([op |-> "from_slice", val |-> r])]
           /\ pc' = [pc EXCEPT ![t] = IF r.ok THEN "uuid" ELSE "err"]
    /\ UNCHANGED <<count, seed, calls, ts, generated, twinVars, overflow_checks>>

\* uuid.as_bytes()
CallAsBytes(t) ==
    /\ pc[t] = "uuid"
    /\ res' = [res EXCEPT ![t] = Some([op |-> "as_bytes", val |-> AsBytes(uuid[t].val)])]
    /\ UNCHANGED <<count, seed, calls, pc, args, ts, uuid, generated, twinVars,
                   overflow_checks>>

\* uuid.get_variant(), with the arm of the match that answered
CallGetVariant(t) ==
    /\ pc[t] = "uuid"
    /\ res' = [res EXCEPT ![t] =
                 Some([op |-> "get_variant", val |-> GetVariant(uuid[t].val),
                       guards |-> GetVariantGuards(uuid[t].val),
                       arm |-> GetVariantArm(uuid[t].val)])]
    /\ UNCHANGED <<count, seed, calls, pc, args, ts, uuid, generated, twinVars,
                   overflow_checks>>

\* uuid.get_version_num()
CallGetVersionNum(t) ==
    /\ pc[t] = "uuid"
    /\ res' = [res EXCEPT ![t] =
                 Some([op |-> "get_version_num", val |-> GetVersionNum(uuid[t].val)])]
    /\ UNCHANGED <<count, seed, calls, pc, args, ts, uuid, generated, twinVars,
                   overflow_checks>>

\* uuid.get_version()
CallGetVersion(t) ==
    /\ pc[t] = "uuid"
    /\ res' = [res EXCEPT ![t] =
                 Some([op |-> "get_version", val |-> GetVersion(uuid[t].val)])]
    /\ UNCHANGED <<count, seed, calls, pc, args, ts, uuid, generated, twinVars,
                   overflow_checks>>

\* uuid.is_nil()
CallIsNil(t) ==
    /\ pc[t] = "uuid"
    /\ res' = [res EXCEPT ![t] = Some([op |-> "is_nil", val |-> IsNil(uuid[t].val)])]
    /\ UNCHANGED <<count, seed, calls, pc, args, ts, uuid, generated, twinVars,
                   overflow_checks>>

\* Uuid::new_v1(u.get_timestamp().unwrap(), bytes 10..15 of u), after
\* get_timestamp answered Some
RebuildV1(t) ==
    /\ pc[t] = "uuid"
    /\ res[t].val.op = "get_timestamp"
    /\ res[t].val.val.some
    /\ res' = [res EXCEPT ![t] =
                 Some([op |-> "rebuild_v1",
                       val |-> NewV1(res[t].val.val.val,
                                     SubSeq(uuid[t].val, 11, 16))])]
    /\ UNCHANGED <<count, seed, calls, pc, args, ts, uuid, generated, twinVars,
                   overflow_checks>>

\* one thread builds a Uuid from raw input and reads it back
InitUuid == InitWith({0}, {FALSE})

NextUuid ==
    \/ \E b \in InputBytes : MakeFromBytes(1, b)
    \/ \E b \in InputSlices : MakeFromSlice(1, b)
    \/ CallAsBytes(1)
    \/ CallGetTimestamp(1)
    \/ CallGetVariant(1)
    \/ CallGetVersionNum(1)
    \/ CallGetVersion(1)
    \/ CallIsNil(1)
    \/ RebuildV1(1)
    \/ Release(1)

SpecUuid == InitUuid /\ [][NextUuid]_vars

----------------------------------------------------------------------------
(* Uuid values from fields and integers *)

\* (b as u32) << n for a byte b, n a multiple of 8
ByteShl32(b, n) == LET f(i) == IF i = (n \div 8) + 1 THEN b ELSE 0 IN Tuple4(f)

\* x | y on u32
Or32(x, y) == LET f(i) == BitOr(x[i], y[i]) IN Tuple4(f)

\* (b as u128) << n for a byte b, n a multiple of 8
ByteShl128(b, n) == LET f(i) == IF i = (n \div 8) + 1 THEN b ELSE 0 IN Tuple16(f)

\* x | y on u128
Or128(x, y) == LET f(i) == BitOr(x[i], y[i]) IN Tuple16(f)

\* Uuid::from_fields_le(d1, d2, d3, d4): from_fields of the byte-swapped
\* d1, d2 and d3, and d4 as it is
FromFieldsLe(d1, d2, d3, d4) ==
    FromFields(<< d1[4], d1[3], d1[2], d1[1] >>,
               (d2 % 256) * 256 + (d2 \div 256),
               (d3 % 256) * 256 + (d3 \div 256), d4)

\* Uuid::from_u128(v): the 16 bytes of v, most significant first
FromU128(v) == LET f(i) == v[17 - i] IN Tuple16(f)

\* Uuid::from_u128_le(v): the 16 bytes of v, least significant first
FromU128Le(v) == LET f(i) == v[i] IN Tuple16(f)

\* Uuid::from_u64_pair(high, low): high then low, each most significant first
FromU64Pair(high, low) ==
    LET f(i) == IF i <= 8 THEN high[9 - i] ELSE low[17 - i] IN Tuple16(f)

AsFields_LittleEndianD2(u) ==
    LET bytes == AsBytes(u)
        d1 == Or32(ByteShl32(bytes[1], 24),
              Or32(ByteShl32(bytes[2], 16),
              Or32(ByteShl32(bytes[3], 8), ByteShl32(bytes[4], 0))))
        d2 == BitOr(bytes[5], Shl(bytes[6], 8, 16))
        d3 == BitOr(Shl(bytes[7], 8, 16), bytes[8])
    IN  << d1, d2, d3, SubSeq(bytes, 9, 16) >>

\* Uuid::as_fields(&self)
AsFields(u) ==
    LET bytes == AsBytes(u)
        d1 == Or32(ByteShl32(bytes[1], 24),
              Or32(ByteShl32(bytes[2], 16),
              Or32(ByteShl32(bytes[3], 8), ByteShl32(bytes[4], 0))))
        d2 == BitOr(Shl(bytes[5], 8, 16), bytes[6])
        d3 == BitOr(Shl(bytes[7], 8, 16), bytes[8])
    IN  << d1, d2, d3, SubSeq(bytes, 9, 16) >>

\* Uuid::to_fields_le(&self)
ToFieldsLe(u) ==
    LET d1 == Or32(ByteShl32(AsBytes(u)[1], 0),
              Or32(ByteShl32(AsBytes(u)[2], 8),
              Or32(ByteShl32(AsBytes(u)[3], 16), ByteShl32(AsBytes(u)[4], 24))))
        d2 == BitOr(AsBytes(u)[5], Shl(AsBytes(u)[6], 8, 16))
        d3 == BitOr(AsBytes(u)[7], Shl(AsBytes(u)[8], 8, 16))
    IN  << d1, d2, d3, SubSeq(AsBytes(u), 9, 16) >>

\* the bytes of (b[from] as u128) << 8 * (16 - from) | ... | (b[16] as u128),
\* the terms of Uuid::to_u128_le read from the last to the first
RECURSIVE OrBytesLe(_, _)
OrBytesLe(b, i) ==
    IF i > 16 THEN ByteShl128(0, 0)
    ELSE Or128(ByteShl128(b[i], 8 * (i - 1)), OrBytesLe(b, i + 1))

\* Uuid::to_u128_le(&self)
ToU128Le(u) == OrBytesLe(AsBytes(u), 1)

AsU64Pair_LowFirst(u) ==
    LET value == AsU128(u)
    IN  << SubSeq(value, 1, 8), SubSeq(value, 9, 16) >>

\* Uuid::as_u64_pair(&self): (value >> 64) as u64 and value as u64
AsU64Pair(u) ==
    LET value == AsU128(u)
    IN  << SubSeq(value, 9, 16), SubSeq(value, 1, 8) >>

\* the field values of the library's tests and the extremes
InputD1 ==
    {U32(0, 0), U32(41378, 41892), U32(42147, 41633), U32(65535, 65535),
     U32(0, 1), U32(4660, 22136)}
InputD2 == {0, 45490, 45745, 255, 65280, 4660, 65535}
InputD3 == {0, 49602, 49857, 255, 65280, 4660, 65535}
InputD4 == {SubSeq(FIELD_BYTES, 9, 16), SubSeq(NIL_BYTES, 9, 16),
            SubSeq(NEW_BYTES, 9, 16)}

\* 128-bit integers: the base arrays read as integers in either byte order,
\* and each with one byte put to an extreme
InputU128 ==
    BaseBytes
    \cup {AsU128(b) : b \in BaseBytes}
    \cup {[b EXCEPT ![i] = v] : b \in BaseBytes, i \in 1..16, v \in {0, 1, 128, 255}}

\* 64-bit integers: the halves of the base arrays, in either byte order
InputU64 ==
    {SubSeq(b, 1, 8) : b \in BaseBytes} \cup {SubSeq(b, 9, 16) : b \in BaseBytes}
    \cup {SubSeq(AsU128(b), 1, 8) : b \in BaseBytes}
    \cup {SubSeq(AsU128(b), 9, 16) : b \in BaseBytes}

\* Uuid::from_fields(d1, d2, d3, &d4)
MakeFromFields(t, d1, d2, d3, d4) ==
    /\ pc[t] = "idle"
    /\ args' = [args EXCEPT ![t] = Some([ctor |-> "from_fields", input |-> << d1, d2, d3, d4 >>])]
    /\ uuid' = [uuid EXCEPT ![t] = Some(FromFields(d1, d2, d3, d4))]
    /\ res' = [res EXCEPT ![t] = Some([op |-> "from_fields", val |-> << d1, d2, d3, d4 >>])]
    /\ pc' = [pc EXCEPT ![t] = "uuid"]
    /\ UNCHANGED <<count, seed, calls, ts, generated, twinVars, overflow_checks>>

\* Uuid::from_fields_le(d1, d2, d3, &d4)
MakeFromFieldsLe(t, d1, d2, d3, d4) ==
    /\ pc[t] = "idle"
    /\ args' = [args EXCEPT ![t] = Some([ctor |-> "from_fields_le", input |-> << d1, d2, d3, d4 >>])]
    /\ uuid' = [uuid EXCEPT ![t] = Some(FromFieldsLe(d1, d2, d3, d4))]
    /\ res' = [res EXCEPT ![t] = Some([op |-> "from_fields_le", val |-> << d1, d2, d3, d4 >>])]
    /\ pc' = [pc EXCEPT ![t] = "uuid"]
    /\ UNCHANGED <<count, seed, calls, ts, generated, twinVars, overflow_checks>>

\* Uuid::from_u128(v)
MakeFromU128(t, v) ==
    /\ pc[t] = "idle"
    /\ args' = [args EXCEPT ![t] = Some([ctor |-> "from_u128", input |-> v])]
    /\ uuid' = [uuid EXCEPT ![t] = Some(FromU128(v))]
    /\ res' = [res EXCEPT ![t] = Some([op |-> "from_u128", val |-> v])]
    /\ pc' = [pc EXCEPT ![t] = "uuid"]
    /\ UNCHANGED <<count, seed, calls, ts, generated, twinVars, overflow_checks>>

\* Uuid::from_u128_le(v)
MakeFromU128Le(t, v) ==
    /\ pc[t] = "idle"
    /\ args' = [args EXCEPT ![t] = Some([ctor |-> "from_u128_le", input |-> v])]
    /\ uuid' = [uuid EXCEPT ![t] = Some(FromU128Le(v))]
    /\ res' = [res EXCEPT ![t] = Some([op |-> "from_u128_le", val |-> v])]
    /\ pc' = [pc EXCEPT ![t] = "uuid"]
    /\ UNCHANGED <<count, seed, calls, ts, generated, twinVars, overflow_checks>>

\* Uuid::from_u64_pair(high, low)
MakeFromU64Pair(t, high, low) ==
    /\ pc[t] = "idle"
    /\ args' = [args EXCEPT ![t] = Some([ctor |-> "from_u64_pair", input |-> << high, low >>])]
    /\ uuid' = [uuid EXCEPT ![t] = Some(FromU64Pair(high, low))]
    /\ res' = [res EXCEPT ![t] = Some([op |-> "from_u64_pair", val |-> << high, low >>])]
    /\ pc' = [pc EXCEPT ![t] = "uuid"]
    /\ UNCHANGED <<count, seed, calls, ts, generated, twinVars, overflow_checks>>

\* uuid.as_fields()
CallAsFields(t) ==
    /\ pc[t] = "uuid"
    /\ res' = [res EXCEPT ![t] = Some([op |-> "as_fields", val |-> AsFields(uuid[t].val)])]
    /\ UNCHANGED <<count, seed, calls, pc, args, ts, uuid, generated, twinVars,
                   overflow_checks>>

\* uuid.to_fields_le()
CallToFieldsLe(t) ==
    /\ pc[t] = "uuid"
    /\ res' = [res EXCEPT ![t] = Some([op |-> "to_fields_le", val |-> ToFieldsLe(uuid[t].val)])]
    /\ UNCHANGED <<count, seed, calls, pc, args, ts, uuid, generated, twinVars,
                   overflow_checks>>

\* uuid.as_u128()
CallAsU128(t) ==
    /\ pc[t] = "uuid"
    /\ res' = [res EXCEPT ![t] = Some([op |-> "as_u128", val |-> AsU128(uuid[t].val)])]
    /\ UNCHANGED <<count, seed, calls, pc, args, ts, uuid, generated, twinVars,
                   overflow_checks>>

\* uuid.to_u128_le()
CallToU128Le(t) ==
    /\ pc[t] = "uuid"
    /\ res' = [res EXCEPT ![t] = Some([op |-> "to_u128_le", val |-> ToU128Le(uuid[t].val)])]
    /\ UNCHANGED <<count, seed, calls, pc, args, ts, uuid, generated, twinVars,
                   overflow_checks>>

\* uuid.as_u64_pair()
CallAsU64Pair(t) ==
    /\ pc[t] = "uuid"
    /\ res' = [res EXCEPT ![t] = Some([op |-> "as_u64_pair", val |-> AsU64Pair(uuid[t].val)])]
    /\ UNCHANGED <<count, seed, calls, pc, args, ts, uuid, generated, twinVars,
                   overflow_checks>>

\* one thread builds a Uuid from fields or integers and reads them back
NextFields ==
    \/ \E d1 \in InputD1, d2 \in InputD2, d3 \in InputD3, d4 \in InputD4 :
         MakeFromFields(1, d1, d2, d3, d4)
    \/ \E d1 \in InputD1, d2 \in InputD2, d3 \in InputD3, d4 \in InputD4 :
         MakeFromFieldsLe(1, d1, d2, d3, d4)
    \/ \E v \in InputU128 : MakeFromU128(1, v)
    \/ \E v \in InputU128 : MakeFromU128Le(1, v)
    \/ \E high \in InputU64, low \in InputU64 : MakeFromU64Pair(1, high, low)
    \/ CallAsFields(1)
    \/ CallToFieldsLe(1)
    \/ CallAsU128(1)
    \/ CallToU128Le(1)
    \/ CallAsU64Pair(1)
    \/ Release(1)

SpecFields == InitUuid /\ [][NextFields]_vars

----------------------------------------------------------------------------
(* Name-based and random Uuids *)

\* the sum of data[k] * (i + k) over the bytes of data from the k-th on
RECURSIVE MixFrom(_, _, _)
MixFrom(data, i, k) ==
    IF k > Len(data) THEN 0
    ELSE (data[k] * (i + k) + MixFrom(data, i, k + 1)) % 65536

\* the MD5 collaborator: 16 digest bytes that are a fixed function of the
\* input bytes (a stand-in for the real digest, which only has to be a
\* function of its input here)
Md5(data) ==
    LET f(i) == (MixFrom(data, i, 1) + 91 * i + Len(data)) % 256 IN Tuple16(f)

\* the SHA-1 collaborator: 20 digest bytes, likewise
Sha1(data) ==
    LET f(i) == (MixFrom(data, 3 * i, 1) + 57 * i + 2 * Len(data)) % 256
        g(i) == (MixFrom(data, i + 77, 1) + 13 * i) % 256
    IN  Tuple16(f) \o Tuple4(g)

\* the version nibble of byte 6 overwritten with v
WithVersion(bytes, v) ==
    [bytes EXCEPT ![7] = BitOr(BitAnd(bytes[7], 15), Shl(v, 4, 8))]

\* the two top bits of byte 8 overwritten with 10
WithVariantRfc4122(bytes) ==
    [bytes EXCEPT ![9] = BitOr(BitAnd(bytes[9], 63), 128)]

\* Uuid::new_v3(namespace, name), after the digest was taken
FromMd5Bytes(digest) == FromBytes(WithVariantRfc4122(WithVersion(digest, 3)))

\* Uuid::new_v4(), after the random bytes were drawn
FromRandomBytes(random) == FromBytes(WithVariantRfc4122(WithVersion(random, 4)))

\* Uuid::new_v5(namespace, name), after the digest was taken
FromSha1Bytes(digest) == FromBytes(WithVariantRfc4122(WithVersion(digest, 5)))

NAMESPACE_DNS ==
    << 107, 167, 184, 16, 157, 173, 17, 209, 128, 180, 0, 192, 79, 212, 48, 200 >>
NAMESPACE_URL ==
    << 107, 167, 184, 17, 157, 173, 17, 209, 128, 180, 0, 192, 79, 212, 48, 200 >>

InputNamespaces == {NAMESPACE_DNS, NAMESPACE_URL}

\* the names: empty, "a", and "rust-lang.org"
InputNames ==
    {<< >>, << 97 >>,
     << 114, 117, 115, 116, 45, 108, 97, 110, 103, 46, 111, 114, 103 >>}

\* what the random source may deliver: the base arrays, and arrays with the
\* version and variant bits all clear, all set, and already stamped
InputRandom ==
    BaseBytes
    \cup {[[b EXCEPT ![7] = x] EXCEPT ![9] = y] :
            b \in {NIL_BYTES, NEW_BYTES}, x \in {0, 79, 255}, y \in {0, 191, 255}}

\* the two callers of the constructors
Callers == {1, 2}

\* Uuid::new_v3(&namespace, name)
CallNewV3(t, namespace, name) ==
    /\ pc[t] = "idle"
    /\ LET digest == SubSeq(Md5(AsBytes(namespace) \o name), 1, 16)
       IN  /\ args' = [args EXCEPT ![t] =
                         Some([ctor |-> "new_v3", input |-> << namespace, name >>,
                               source |-> digest])]
           /\ uuid' = [uuid EXCEPT ![t] = Some(FromMd5Bytes(digest))]
    /\ res' = [res EXCEPT ![t] = Some([op |-> "new_v3", val |-> name])]
    /\ pc' = [pc EXCEPT ![t] = "uuid"]
    /\ UNCHANGED <<count, seed, calls, ts, generated, twinVars, overflow_checks>>

\* Uuid::new_v4(), the random source delivering random
CallNewV4(t, random) ==
    /\ pc[t] = "idle"
    /\ args' = [args EXCEPT ![t] =
                  Some([ctor |-> "new_v4", input |-> random, source |-> random])]
    /\ uuid' = [uuid EXCEPT ![t] = Some(FromRandomBytes(random))]
    /\ res' = [res EXCEPT ![t] = Some([op |-> "new_v4", val |-> random])]
    /\ pc' = [pc EXCEPT ![t] = "uuid"]
    /\ UNCHANGED <<count, seed, calls, ts, generated, twinVars, overflow_checks>>

\* Uuid::new_v5(&namespace, name)
CallNewV5(t, namespace, name) ==
    /\ pc[t] = "idle"
    /\ LET digest == SubSeq(Sha1(AsBytes(namespace) \o name), 1, 16)
       IN  /\ args' = [args EXCEPT ![t] =
                         Some([ctor |-> "new_v5", input |-> << namespace, name >>,
                               source |-> digest])]
           /\ uuid' = [uuid EXCEPT ![t] = Some(FromSha1Bytes(digest))]
    /\ res' = [res EXCEPT ![t] = Some([op |-> "new_v5", val |-> name])]
    /\ pc' = [pc EXCEPT ![t] = "uuid"]
    /\ UNCHANGED <<count, seed, calls, ts, generated, twinVars, overflow_checks>>

\* two callers build name-based and random Uuids and classify them
NextVersions ==
    \/ \E t \in Callers, ns \in InputNamespaces, name \in InputNames :
         CallNewV3(t, ns, name)
    \/ \E t \in Callers, random \in InputRandom : CallNewV4(t, random)
    \/ \E t \in Callers, ns \in InputNamespaces, name \in InputNames :
         CallNewV5(t, ns, name)
    \/ \E t \in Callers : CallGetVersionNum(t)
    \/ \E t \in Callers : CallGetVersion(t)
    \/ \E t \in Callers : CallGetVariant(t)
    \/ \E t \in Callers : Release(t)

SpecVersions == InitUuid /\ [][NextVersions]_vars

----------------------------------------------------------------------------
(* Text forms of a Uuid.  A string is the sequence of its character codes. *)

\* the hex digits of bytes[i..j], two per byte, in the chosen letter case
RECURSIVE HexFrom(_, _, _, _)
HexFrom(bytes, i, j, upper) ==
    LET digit(n) == IF n < 10 THEN 48 + n ELSE (IF upper THEN 55 ELSE 87) + n
    IN  IF i > j THEN << >>
        ELSE << digit(bytes[i] \div 16), digit(bytes[i] % 16) >>
             \o HexFrom(bytes, i + 1, j, upper)

\* the encoder: uuid.simple(), .hyphenated(), .urn() or .braced(), written
\* with encode_lower or encode_upper
Encode(u, layout, upper) ==
    LET b == AsBytes(u)
        hyphenated ==
            HexFrom(b, 1, 4, upper) \o << 45 >> \o HexFrom(b, 5, 6, upper)
            \o << 45 >> \o HexFrom(b, 7, 8, upper) \o << 45 >>
            \o HexFrom(b, 9, 10, upper) \o << 45 >> \o HexFrom(b, 11, 16, upper)
    IN  CASE layout = "simple" -> HexFrom(b, 1, 16, upper)
          [] layout = "hyphenated" -> hyphenated
          [] layout = "urn" ->
               << 117, 114, 110, 58, 117, 117, 105, 100, 58 >> \o hyphenated
          [] layout = "braced" -> << 123 >> \o hyphenated \o << 125 >>

\* Display, LowerHex and UpperHex of a Uuid: "{}", "{:x}", "{:X}" and, with
\* the alternate flag, "{:#x}", "{:#X}"
Display(u, alternate, upper) ==
    Encode(u, IF alternate THEN "simple" ELSE "hyphenated", upper)

EncodeBuffer_Braced ==
    << 0, 0, 0, 0, 0, 0, 0, 0, 0, 0, 0, 0, 0, 0, 0, 0, 0, 0, 0,
       0, 0, 0, 0, 0, 0, 0, 0, 0, 0, 0, 0, 0, 0, 0, 0, 0, 0, 0 >>

\* Uuid::encode_buffer(): [0; fmt::Urn::LENGTH], 45 zero bytes
EncodeBuffer ==
    << 0, 0, 0, 0, 0, 0, 0, 0, 0, 0, 0, 0, 0, 0, 0,
       0, 0, 0, 0, 0, 0, 0, 0, 0, 0, 0, 0, 0, 0, 0,
       0, 0, 0, 0, 0, 0, 0, 0, 0, 0, 0, 0, 0, 0, 0 >>

HexValue_AcceptsG(c) ==
    IF c \in 48..57 THEN c - 48
    ELSE IF c \in 65..71 THEN c - 55
    ELSE IF c \in 97..103 THEN c - 87
    ELSE 0 - 1

\* the value of a hex digit of either case, -1 for any other character
HexValue(c) ==
    IF c \in 48..57 THEN c - 48
    ELSE IF c \in 65..70 THEN c - 55
    ELSE IF c \in 97..102 THEN c - 87
    ELSE 0 - 1

\* the bytes that the hex digits from the i-th on spell, two digits a byte
RECURSIVE DecodeFrom(_, _)
DecodeFrom(digits, i) ==
    IF i + 1 > Len(digits) THEN << >>
    ELSE << 16 * HexValue(digits[i]) + HexValue(digits[i + 1]) >>
         \o DecodeFrom(digits, i + 2)

\* Uuid::parse_str(input): surrounding whitespace is dropped; braces or the
\* urn:uuid: prefix may wrap the hyphenated form; the body is 32 hex digits,
\* alone or in groups of 8-4-4-4-12 joined by hyphens.  Anything else is an
\* error value that names the kind of mismatch.
ParseStr(input) ==
    LET Err(kind) == [ok |-> FALSE, val |-> [kind |-> kind]]
        inked == {i \in 1..Len(input) : input[i] \notin {32, 9, 10, 13}}
        first == CHOOSE i \in inked : \A j \in inked : i <= j
        last == CHOOSE i \in inked : \A j \in inked : j <= i
        t == IF inked = {} THEN << >> ELSE SubSeq(input, first, last)
        n == Len(t)
        isHex(c) == HexValue(c) >= 0
        Simple(body) ==
            IF \E i \in 1..Len(body) : ~isHex(body[i]) THEN Err("InvalidCharacter")
            ELSE IF Len(body) # 32 THEN Err("LengthMismatch")
            ELSE [ok |-> TRUE, val |-> FromBytes(DecodeFrom(body, 1))]
        Hyphenated(body) ==
            LET digits == SelectSeq(body, isHex)
                hyphens == {i \in 1..Len(body) : body[i] = 45}
            IN  IF \E i \in 1..Len(body) : ~isHex(body[i]) /\ body[i] # 45
                THEN Err("InvalidCharacter")
                ELSE IF Len(digits) # 32 THEN Err("LengthMismatch")
                ELSE IF Cardinality(hyphens) # 4 THEN Err("InvalidGrouping")
                ELSE IF hyphens # {9, 14, 19, 24} THEN Err("InvalidGroupLength")
                ELSE [ok |-> TRUE, val |-> FromBytes(DecodeFrom(digits, 1))]
    IN  IF n = 0 THEN Err("LengthMismatch")
        ELSE IF t[1] = 123 \/ t[n] = 125
        THEN IF n >= 2 /\ t[1] = 123 /\ t[n] = 125
             THEN Hyphenated(SubSeq(t, 2, n - 1))
             ELSE Err("InvalidBraces")
        ELSE IF t[1] = 117
        THEN IF n >= 9 /\ SubSeq(t, 1, 9) = << 117, 114, 110, 58, 117, 117, 105, 100, 58 >>
             THEN Hyphenated(SubSeq(t, 10, n))
             ELSE Err("InvalidUrnPrefix")
        ELSE IF \E i \in 1..n : t[i] = 45 THEN Hyphenated(t)
        ELSE Simple(t)

\* the strings handed to parse_str: the renderings of two Uuids, the mixed
\* case strings of the library's tests, and each of them with one character
\* removed, replaced ('g', '-', '{', ' '), inserted ('0', '-') or exchanged
\* with its neighbour, cut short, and padded with whitespace
InputStrings ==
    LET good ==
            {Encode(b, layout, upper) :
                b \in {FIELD_BYTES, NEW_BYTES},
                layout \in {"simple", "hyphenated", "urn", "braced"},
                upper \in BOOLEAN}
            \cup {<< 57, 51, 54, 68, 65, 48, 49, 70, 57, 65, 66, 68, 52, 100, 57,
                     100, 67, 48, 67, 55, 48, 50, 65, 70, 56, 53, 67, 56, 50, 50,
                     65, 56 >>,
                  << 70, 57, 49, 54, 56, 67, 53, 69, 45, 67, 69, 66, 50, 45, 52,
                     102, 97, 97, 45, 68, 54, 66, 70, 45, 51, 50, 57, 66, 70, 51,
                     57, 70, 65, 49, 69, 52 >>}
        cut(s, i) == SubSeq(s, 1, i - 1) \o SubSeq(s, i + 1, Len(s))
        put(s, i, c) == SubSeq(s, 1, i - 1) \o << c >> \o SubSeq(s, i, Len(s))
        swap(s, i) == [[s EXCEPT ![i] = s[i + 1]] EXCEPT ![i + 1] = s[i]]
    IN  good
        \cup {cut(s, i) : s \in good, i \in 1..32}
        \cup {cut(s, Len(s)) : s \in good}
        \cup UNION {{[s EXCEPT ![i] = c] : i \in 1..Len(s)} :
                      s \in good, c \in {103, 45, 123, 32}}
        \cup UNION {{put(s, i, c) : i \in 1..(Len(s) + 1)} :
                      s \in good, c \in {48, 45}}
        \cup UNION {{swap(s, i) : i \in 1..(Len(s) - 1)} : s \in good}
        \cup UNION {{SubSeq(s, 1, n) : n \in 0..Len(s)} : s \in good}
        \cup {<< 32 >> \o s \o << 32, 10 >> : s \in good}
        \cup {SubSeq(s, 1, 12) \o << 32 >> \o SubSeq(s, 13, Len(s)) : s \in good}

\* Uuid::parse_str(input): the Uuid, or the error value
MakeParseStr(t, input) ==
    /\ pc[t] = "idle"
    /\ LET r == ParseStr(input)
       IN  /\ args' = [args EXCEPT ![t] =
                         Some([ctor |-> "parse_str", input |-> input, result |-> r])]
           /\ uuid' = [uuid EXCEPT ![t] = IF r.ok THEN Some(r.val) ELSE None]
           /\ res' = [res EXCEPT ![t] =
                        Some([op |-> "parse_str", from |-> [op |-> "input"], val |-> r])]
           /\ pc' = [pc EXCEPT ![t] = IF r.ok THEN "uuid" ELSE "err"]
    /\ UNCHANGED <<count, seed, calls, ts, generated, twinVars, overflow_checks>>

\* Uuid::parse_str(input) once more, on the input of the first call
ReparseStr(t) ==
    /\ pc[t] \in {"uuid", "err"}
    /\ args[t].val.ctor = "parse_str"
    /\ res' = [res EXCEPT ![t] =
                 Some([op |-> "parse_str_again", val |-> ParseStr(args[t].val.input)])]
    /\ UNCHANGED <<count, seed, calls, pc, args, ts, uuid, generated, twinVars,
                   overflow_checks>>

\* Uuid::parse_str(&text) of the text the thread has just rendered
CallParseStr(t) ==
    /\ pc[t] = "uuid"
    /\ res[t].val.op \in {"encode", "display"}
    /\ res' = [res EXCEPT ![t] =
                 Some([op |-> "parse_str", from |-> res[t].val,
                       val |-> ParseStr(res[t].val.val)])]
    /\ UNCHANGED <<count, seed, calls, pc, args, ts, uuid, generated, twinVars,
                   overflow_checks>>

\* uuid.<layout>().encode_lower(&mut Uuid::encode_buffer()), or encode_upper:
\* the text is written into the buffer, which cannot take more than it holds
CallEncode(t, layout, upper) ==
    /\ pc[t] = "uuid"
    /\ LET text == Encode(uuid[t].val, layout, upper)
       IN  IF Len(text) > Len(EncodeBuffer)
           THEN /\ pc' = [pc EXCEPT ![t] = "panicked"]
                /\ res' = res
           ELSE /\ pc' = pc
                /\ res' = [res EXCEPT ![t] =
                             Some([op |-> "encode", layout |-> layout,
                                   upper |-> upper, val |-> text])]
    /\ UNCHANGED <<count, seed, calls, args, ts, uuid, generated, twinVars,
                   overflow_checks>>

\* format!("{}", uuid) and its hex variants
CallDisplay(t, alternate, upper) ==
    /\ pc[t] = "uuid"
    /\ res' = [res EXCEPT ![t] =
                 Some([op |-> "display", alternate |-> alternate, upper |-> upper,
                       val |-> Display(uuid[t].val, alternate, upper)])]
    /\ UNCHANGED <<count, seed, calls, pc, args, ts, uuid, generated, twinVars,
                   overflow_checks>>

\* one thread renders Uuids as text and reads text back
NextFormat ==
    \/ \E b \in InputU128 : MakeFromBytes(1, b)
    \/ \E layout \in {"simple", "hyphenated", "urn", "braced"}, upper \in BOOLEAN :
         CallEncode(1, layout, upper)
    \/ \E alternate \in BOOLEAN, upper \in BOOLEAN : CallDisplay(1, alternate, upper)
    \/ CallParseStr(1)
    \/ \E input \in InputStrings : MakeParseStr(1, input)
    \/ ReparseStr(1)
    \/ Release(1)

SpecFormat == InitUuid /\ [][NextFormat]_vars

----------------------------------------------------------------------------
(* Properties of Version 1 extraction *)

\* C11: get_timestamp inverts new_v1: for ticks below 2^60, a counter below
\* 2^14 and any node, the Uuid built by new_v1 gives back Some(ts) with
\* ts.to_rfc4122() = (ticks, counter).
C11_GetTimestampInverts ==
    \A t \in Threads :
        ( /\ pc[t] = "uuid"
          /\ res[t].val.op = "get_timestamp"
          /\ ts[t].val.ticks[8] < 16
          /\ ts[t].val.counter < 16384 ) =>
            /\ res[t].val.val.some
            /\ ToRfc4122(res[t].val.val.val)
                 = << ts[t].val.ticks, ts[t].val.counter >>

\* C11 witness: the Timestamp of the largest 60-bit ticks and the largest
\* 14-bit counter went through new_v1 and get_timestamp
C11_Witness ==
    /\ pc[1] = "uuid"
    /\ res[1].val.op = "get_timestamp"
    /\ ts[1].val.ticks = U64(4095, 65535, 65535, 65535)
    /\ ts[1].val.counter = 16383

\* C12: for every 16-byte Uuid, get_timestamp returns Some exactly when the
\* top four bits of byte 6 are 0001, whatever the variant bits in byte 8; it
\* returns None for every other value, the nil Uuid included.
C12_SomeIffVersionOne ==
    ( /\ pc[1] = "uuid"
      /\ res[1].val.op = "get_timestamp" ) =>
        /\ res[1].val.val.some <=> (uuid[1].val[7] \div 16 = 1)
        /\ uuid[1].val = NIL_BYTES => res[1].val.val = None

\* C12 witness: get_timestamp answered on a Uuid whose version nibble is 1
\* and whose variant is not RFC4122
C12_Witness ==
    /\ pc[1] = "uuid"
    /\ res[1].val.op = "get_timestamp"
    /\ uuid[1].val[7] \div 16 = 1
    /\ uuid[1].val[9] = 255
    /\ res[1].val.val.some

----------------------------------------------------------------------------
(* Properties of Timestamp *)

C14_NoOverflow ==
    \A t \in Threads :
        /\ pc[t] # "panicked"
        /\ pc[t] = "from_unix" =>
             ~FromUnixTicks(args[t].val.seconds, args[t].val.subsec_nanos).overflow
        /\ pc[t] = "ts" =>
             /\ ~ToUnix(ts[t].val).overflow
             /\ ~ToUnixNanos(ts[t].val).overflow

----------------------------------------------------------------------------
(* Properties of the Uuid value *)

\* C15: get_variant classifies by the top bits of byte 8 alone: 0xx is NCS,
\* 10x RFC4122, 110 Microsoft, 111 Future; exactly one of the four patterns
\* applies to any byte, whatever the other bytes are, and the fallback arm of
\* the match is never the one that answers.
C15_VariantByTopBits ==
    ( /\ pc[1] = "uuid"
      /\ res[1].val.op = "get_variant" ) =>
        LET top == uuid[1].val[9] \div 32
        IN  /\ res[1].val.val =
                 ( IF top <= 3 THEN "NCS"
                   ELSE IF top <= 5 THEN "RFC4122"
                   ELSE IF top = 6 THEN "Microsoft"
                   ELSE "Future" )
            /\ Cardinality(res[1].val.guards) = 1
            /\ res[1].val.arm # 5

\* C15 witness: get_variant answered Microsoft for byte 8 = 0xDF in a Uuid
\* whose other bytes are all zero
C15_Witness ==
    /\ pc[1] = "uuid"
    /\ res[1].val.op = "get_variant"
    /\ uuid[1].val = [NIL_BYTES EXCEPT ![9] = 223]
    /\ res[1].val.val = "Microsoft"

\* C16: get_version classifies by the top four bits of byte 6: 1..5 give
\* Some(Mac), Some(Dce), Some(Md5), Some(Random), Some(Sha1); 0 gives
\* Some(Nil) exactly when the Uuid is nil (all 16 bytes zero) and None
\* otherwise; 6..15 give None.  Whenever the answer is Some(v), the number of
\* v is get_version_num(), which is always in 0..15.
C16_VersionByNibble ==
    /\ ( pc[1] = "uuid" /\ res[1].val.op = "get_version" ) =>
         LET u == uuid[1].val
             n == u[7] \div 16
             r == res[1].val.val
         IN  /\ n \in 1..5 =>
                  r = Some(<< "Mac", "Dce", "Md5", "Random", "Sha1" >>[n])
             /\ n = 0 => r = (IF u = NIL_BYTES THEN Some("Nil") ELSE None)
             /\ n \in 6..15 => r = None
             /\ r.some => VersionNumber(r.val) = GetVersionNum(u)
    /\ ( pc[1] = "uuid" /\ res[1].val.op = "get_version_num" ) =>
         /\ res[1].val.val = uuid[1].val[7] \div 16
         /\ res[1].val.val \in 0..15
    /\ ( pc[1] = "uuid" /\ res[1].val.op = "is_nil" ) =>
         res[1].val.val = (uuid[1].val = NIL_BYTES)

\* C16 witness: get_version answered None for a Uuid that has version
\* nibble 0 and is not nil
C16_Witness ==
    /\ pc[1] = "uuid"
    /\ res[1].val.op = "get_version"
    /\ uuid[1].val = NOT_NIL_BYTES
    /\ res[1].val.val = None

\* C17: from_bytes(b).as_bytes() = b for every 16-byte array b; from_slice(s)
\* succeeds exactly when s has 16 bytes, and then as_bytes() = s; for any
\* other length it returns a length error as a value and nothing aborts.
C17_BytesRoundTrip ==
    /\ ( pc[1] = "uuid" /\ res[1].val.op = "as_bytes" ) =>
         res[1].val.val = args[1].val.input
    /\ ( args[1].some /\ args[1].val.ctor = "from_bytes" ) =>
         pc[1] = "uuid" /\ uuid[1] = Some(args[1].val.input)
    /\ ( args[1].some /\ args[1].val.ctor = "from_slice" ) =>
         /\ pc[1] = (IF Len(args[1].val.input) = 16 THEN "uuid" ELSE "err")
         /\ pc[1] = "uuid" => uuid[1] = Some(args[1].val.input)
         /\ pc[1] = "err" =>
              /\ ~res[1].val.val.ok
              /\ res[1].val.val.val.kind = "ByteLength"
              /\ uuid[1] = None
    /\ pc[1] # "panicked"

\* C17 witness: as_bytes answered on a Uuid that from_slice made of 16 bytes
C17_Witness ==
    /\ pc[1] = "uuid"
    /\ args[1].val.ctor = "from_slice"
    /\ args[1].val.input = FIELD_BYTES
    /\ res[1].val.op = "as_bytes"
    /\ res[1].val.val = FIELD_BYTES

\* C18: from_fields(d1, d2, d3, d4).as_fields() = (d1, d2, d3, d4);
\* from_fields_le(d1, d2, d3, d4).to_fields_le() = (d1, d2, d3, d4); and
\* to_fields_le() of from_fields(d1, d2, d3, d4) gives d1, d2 and d3 each
\* with its own bytes reversed, and d4 unchanged.
C18_FieldsRoundTrip ==
    ( pc[1] = "uuid" /\ args[1].val.ctor \in {"from_fields", "from_fields_le"} ) =>
        LET in == args[1].val.input
            r == res[1].val
            swap16(x) == (x % 256) * 256 + (x \div 256)
        IN  /\ ( args[1].val.ctor = "from_fields" /\ r.op = "as_fields" ) =>
                 r.val = in
            /\ ( args[1].val.ctor = "from_fields_le" /\ r.op = "to_fields_le" ) =>
                 r.val = in
            /\ ( args[1].val.ctor = "from_fields" /\ r.op = "to_fields_le" ) =>
                 r.val = << << in[1][4], in[1][3], in[1][2], in[1][1] >>,
                            swap16(in[2]), swap16(in[3]), in[4] >>

\* C18 witness: to_fields_le answered on from_fields(0xa1a2a3a4, 0xb1b2,
\* 0xc1c2, d1..d8) with the fields 0xa4a3a2a1, 0xb2b1, 0xc2c1
C18_Witness ==
    /\ pc[1] = "uuid"
    /\ args[1].val.ctor = "from_fields"
    /\ uuid[1].val = FIELD_BYTES
    /\ res[1].val.op = "to_fields_le"
    /\ res[1].val.val[1] = U32(42147, 41633)
    /\ res[1].val.val[2] = 45745
    /\ res[1].val.val[3] = 49857

\* C19: from_u128(v).as_u128() = v; from_u128_le(v).to_u128_le() = v;
\* to_u128_le() is as_u128() with all 16 bytes reversed; as_u64_pair() is
\* (as_u128() >> 64, as_u128() mod 2^64); from_u64_pair(h, l).as_u64_pair()
\* = (h, l).  Integers are tuples of bytes, least significant first.
C19_IntegersRoundTrip ==
    pc[1] = "uuid" =>
        LET in == args[1].val.input
            ctor == args[1].val.ctor
            r == res[1].val
            u == uuid[1].val
        IN  /\ ( ctor = "from_u128" /\ r.op = "as_u128" ) => r.val = in
            /\ ( ctor = "from_u128_le" /\ r.op = "to_u128_le" ) => r.val = in
            /\ r.op = "to_u128_le" =>
                 \A i \in 1..16 : r.val[i] = AsU128(u)[17 - i]
            /\ r.op = "as_u128" =>
                 \A i \in 1..16 : r.val[i] = ToU128Le(u)[17 - i]
            /\ r.op = "as_u64_pair" =>
                 /\ \A i \in 1..8 : r.val[1][i] = AsU128(u)[8 + i]
                 /\ \A i \in 1..8 : r.val[2][i] = AsU128(u)[i]
                 /\ \A i \in 1..8 : r.val[1][i] = u[9 - i] /\ r.val[2][i] = u[17 - i]
            /\ ( ctor = "from_u64_pair" /\ r.op = "as_u64_pair" ) => r.val = in

\* C19 witness: as_u64_pair answered (0xa1a2a3a4b1b2c1c2, 0xd1d2d3d4d5d6d7d8)
\* on the Uuid from_u64_pair made of that pair
C19_Witness ==
    /\ pc[1] = "uuid"
    /\ args[1].val.ctor = "from_u64_pair"
    /\ uuid[1].val = FIELD_BYTES
    /\ res[1].val.op = "as_u64_pair"
    /\ res[1].val.val[1] = U64(41378, 41892, 45490, 49602)
    /\ res[1].val.val[2] = U64(53714, 54228, 54742, 55256)

----------------------------------------------------------------------------
(* Properties of the text forms *)

\* C21: Simple is exactly 32 hex digits, Hyphenated 36 characters with '-'
\* exactly at offsets 8, 13, 18 and 23, Urn 45 characters being "urn:uuid:"
\* and the Hyphenated form, Braced 38 characters being '{', the Hyphenated
\* form and '}'; the digits are those of the 16 bytes in order; lower-case
\* text has no upper-case letter and upper-case text no lower-case letter;
\* Display is the lower-case Hyphenated form and the alternate flag selects
\* the 32-character Simple form; nothing is written past the 45-byte
\* encode_buffer.
C21_EncoderLayouts ==
    /\ pc[1] # "panicked"
    /\ ( pc[1] = "uuid" /\ res[1].val.op \in {"encode", "display"} ) =>
         LET r == res[1].val
             s == r.val
             b == uuid[1].val
             layout == IF r.op = "encode" THEN r.layout
                       ELSE IF r.alternate THEN "simple" ELSE "hyphenated"
             lead == IF layout = "urn" THEN 9 ELSE IF layout = "braced" THEN 1 ELSE 0
             n == IF layout = "simple" THEN 32 ELSE 36
             body == SubSeq(s, lead + 1, lead + n)
             hyphens == IF layout = "simple" THEN {} ELSE {9, 14, 19, 24}
             isDigit(c) == \/ c \in 48..57
                           \/ (r.upper /\ c \in 65..70)
                           \/ (~r.upper /\ c \in 97..102)
             value(c) == IF c <= 57 THEN c - 48 ELSE IF c <= 70 THEN c - 55 ELSE c - 87
             digits == SelectSeq(body, isDigit)
         IN  /\ Len(s) = (CASE layout = "simple" -> 32 [] layout = "hyphenated" -> 36
                            [] layout = "urn" -> 45 [] layout = "braced" -> 38)
             /\ Len(s) <= Len(EncodeBuffer) /\ Len(EncodeBuffer) = 45
             /\ \A i \in 1..n : IF i \in hyphens THEN body[i] = 45 ELSE isDigit(body[i])
             /\ Len(digits) = 32
             /\ \A i \in 1..16 :
                  16 * value(digits[2 * i - 1]) + value(digits[2 * i]) = b[i]
             /\ layout = "urn" =>
                  SubSeq(s, 1, 9) = << 117, 114, 110, 58, 117, 117, 105, 100, 58 >>
             /\ layout = "braced" => s[1] = 123 /\ s[38] = 125
             /\ ( r.op = "display" /\ ~r.alternate /\ ~r.upper /\ b = FIELD_BYTES ) =>
                  s = << 97, 49, 97, 50, 97, 51, 97, 52, 45, 98, 49, 98, 50, 45,
                         99, 49, 99, 50, 45, 100, 49, 100, 50, 45,
                         100, 51, 100, 52, 100, 53, 100, 54, 100, 55, 100, 56 >>

\* C21 witness: the upper-case Urn form of the Uuid of the library's tests,
\* 45 characters with the letters F, C, E, B, A, D in upper case
C21_Witness ==
    /\ pc[1] = "uuid"
    /\ uuid[1].val = NEW_BYTES
    /\ res[1].val.op = "encode"
    /\ res[1].val.layout = "urn"
    /\ res[1].val.upper
    /\ Len(res[1].val.val) = 45
    /\ res[1].val.val[10] = 70

\* C22: for every Uuid u, every layout and both letter cases,
\* parse_str(format(u, layout)) = u; parsing the Simple and the Hyphenated
\* rendering of one u gives equal values; and the Hyphenated rendering
\* without its hyphens is exactly the Simple rendering.
C22_FormatRoundTrip ==
    pc[1] = "uuid" =>
        LET r == res[1].val
            u == uuid[1].val
        IN  /\ r.op = "parse_str" => r.val = [ok |-> TRUE, val |-> u]
            /\ ( r.op = "encode" /\ r.layout \in {"simple", "hyphenated"} ) =>
                 LET other == IF r.layout = "simple" THEN "hyphenated" ELSE "simple"
                     isDigit(c) == c # 45
                 IN  /\ ParseStr(r.val).ok
                     /\ ParseStr(r.val) = ParseStr(Encode(u, other, r.upper))
                     /\ r.layout = "hyphenated" =>
                          SelectSeq(r.val, isDigit) = Encode(u, "simple", r.upper)

\* C22 witness: the upper-case Braced text of the Uuid of the library's tests
\* was parsed back
C22_Witness ==
    /\ pc[1] = "uuid"
    /\ uuid[1].val = NEW_BYTES
    /\ res[1].val.op = "parse_str"
    /\ res[1].val.from.op = "encode"
    /\ res[1].val.from.layout = "braced"
    /\ res[1].val.from.upper
    /\ res[1].val.val.ok

----------------------------------------------------------------------------
(* Further properties of the Context, of Timestamp and of Version 1 Uuids *)

\* C24: in a sequential run any two consecutive generate_sequence calls on
\* one Context return different values, for every seed, also across the
\* overflow of the 16-bit counter.
C24_ConsecutiveDiffer ==
    \A i \in 1..(Len(calls) - 1) : calls[i].ret # calls[i + 1].ret

\* C24 witness: the 16-bit counter overflowed between the second and the
\* third call
C24_Witness ==
    /\ Len(calls) >= 3
    /\ calls[2].raw = U16_MAX
    /\ calls[3].raw = 0
    /\ calls[2].ret # calls[3].ret

\* C25: for every seconds and every subsec_nanos < 1_000_000_000 for which
\* from_unix does not overflow, from_unix(ctx, seconds, subsec_nanos).to_unix()
\* = (seconds, subsec_nanos - subsec_nanos mod 100): the seconds are kept, the
\* nanoseconds are cut to the 100 ns unit and stay below 10^9.
C25_UnixRoundTrip ==
    ( /\ pc[1] = "ts"
      /\ args[1].some
      /\ res[1].some
      /\ res[1].val.op = "to_unix"
      /\ args[1].val.subsec_nanos[4] < 60
      /\ ~FromUnixTicks(args[1].val.seconds, args[1].val.subsec_nanos).overflow ) =>
        LET n == args[1].val.subsec_nanos
            nanos == n[1] + 256 * n[2] + 65536 * n[3] + 16777216 * n[4]
            out == res[1].val.val[2]
            outNanos == out[1] + 256 * out[2] + 65536 * out[3] + 16777216 * out[4]
        IN  nanos < 1000000000 =>
              /\ res[1].val.val[1] = args[1].val.seconds
              /\ out[4] < 60
              /\ outNanos = nanos - (nanos % 100)
              /\ outNanos < 1000000000

\* C25 witness: to_unix answered on from_unix(ctx, 1496854535, 999_999_999),
\* where the last 99 ns are cut
C25_Witness ==
    /\ pc[1] = "ts"
    /\ args[1].some
    /\ args[1].val.seconds = SECS_2017
    /\ args[1].val.subsec_nanos = U32(15258, 51711)
    /\ res[1].some
    /\ res[1].val.op = "to_unix"
    /\ res[1].val.val[2] # args[1].val.subsec_nanos

\* C26: to_unix_nanos is the same duration as to_unix: for every Timestamp
\* t, with (s, n) = t.to_unix(), t.to_unix_nanos() = s * 1_000_000_000 + n as
\* a u64, also for every 60-bit ticks that a Version 1 Uuid can carry: no call
\* aborts, and neither side leaves the 64 bits.
C26_SameDuration ==
    /\ pc[1] # "panicked"
    /\ pc[1] = "ts" =>
         LET unix == ToUnix(ts[1].val)
             nanos == ToUnixNanos(ts[1].val)
             whole == Mul64(unix.val[1], U64(0, 0, 15258, 51712))
             sum == Add64(whole.val, U64FromU32(unix.val[2]))
         IN  /\ ~unix.overflow /\ ~nanos.overflow
             /\ ~whole.overflow /\ ~sum.overflow
             /\ nanos.val = sum.val

\* C27: new_v1 truncates out-of-range inputs and spills nothing into other
\* fields: for every u64 ticks and u16 counter, get_timestamp of the Uuid
\* built by new_v1 gives (ticks mod 2^60, counter mod 2^14), and the Uuid,
\* with its node bytes, its version nibble and its variant bits, is the one
\* built from the in-range inputs (ticks mod 2^60, counter mod 2^14).
C27_TruncatedNotSpilled ==
    \A t \in Threads :
        pc[t] = "uuid" =>
            LET ticks == [ts[t].val.ticks EXCEPT ![8] = @ % 16]
                counter == ts[t].val.counter % 16384
            IN  /\ res[t].val.op = "get_timestamp" =>
                     /\ res[t].val.val.some
                     /\ ToRfc4122(res[t].val.val.val) = << ticks, counter >>
                /\ uuid[t].val[7] \div 16 = 1
                /\ uuid[t].val[9] \div 64 = 2
                /\ res[t].val.op = "new_v1" =>
                     /\ uuid[t].val = NewV1(FromRfc4122(ticks, counter),
                                            res[t].val.val)
                     /\ SubSeq(uuid[t].val, 11, 16) = res[t].val.val

\* C27 witness: get_timestamp answered on the Uuid built from ticks of
\* 2^64 - 1 and a counter of 65535, both with every out-of-range bit set
C27_Witness ==
    /\ pc[1] = "uuid"
    /\ res[1].val.op = "get_timestamp"
    /\ ts[1].val.ticks = SECS_MAX
    /\ ts[1].val.counter = 65535
    /\ ToRfc4122(res[1].val.val.val) = << U64(4095, 65535, 65535, 65535), 16383 >>

\* C28: rebuilding a Version 1 Uuid from its parts gives the same Uuid: for
\* every 16-byte Uuid u whose version nibble is 1 and whose variant bits are
\* 10, new_v1(u.get_timestamp().unwrap(), bytes 10..15 of u) = u.
C28_RebuildGivesSame ==
    ( /\ pc[1] = "uuid"
      /\ uuid[1].val[7] \div 16 = 1
      /\ uuid[1].val[9] \div 64 = 2 ) =>
        /\ res[1].val.op = "get_timestamp" => res[1].val.val.some
        /\ res[1].val.op = "rebuild_v1" => res[1].val.val = uuid[1].val

\* C28 witness: a Uuid of version 1 and variant 10, with every other bit of
\* bytes 6 and 8 set, was taken apart and rebuilt
C28_Witness ==
    /\ pc[1] = "uuid"
    /\ res[1].val.op = "rebuild_v1"
    /\ uuid[1].val = [[NEW_BYTES EXCEPT ![7] = 31] EXCEPT ![9] = 191]
    /\ res[1].val.val = uuid[1].val

====
